---- MODULE Spec2Model ----
(***************************************************************************)
(* Model of src/main.py: the Streamlit script of the Plasmodium drug       *)
(* prediction system.  A session holds the two widgets (text input and     *)
(* selectbox); pressing "Run" executes main()'s try block, one of four     *)
(* branches.  The working directory (molecule.smi, descriptors_output.csv) *)
(* is shared by all sessions of the server.                                *)
(*                                                                         *)
(* Text is a sequence of one-character strings.  Floating-point values are *)
(* integers counting units of 1/Scale (Scale a power of two, so every      *)
(* modelled value is an exact double).                                     *)
(***************************************************************************)
EXTENDS Integers, Sequences, FiniteSets, TLC

VARIABLES
    smiles_input,        \* [session -> text] value of st.text_input (line 92)
    selected_option,     \* [session -> option] value of st.selectbox (line 103)
    pc,                  \* [session -> position of the script run]
    triggered,           \* [session -> BOOLEAN] st.button("Run") was true in the current script run
    out,                 \* [session -> sequence of elements rendered by the current script run]
    raised,              \* [session -> exception raised inside the try block, or NoExc]
    ops,                 \* [session -> sequence of the effectful calls made by the current run]
    exitcode,            \* [session -> return value of subprocess.call in the current run, or -1]
    X,                   \* [session -> feature matrix local of the pIC50 branch, or NoData]
    y_pred,              \* [session -> sequence returned by predict, or << >>]
    tool,                \* [session -> what the run's tool process read, and its exit code]
    result,              \* [session -> what Query(...).search() returned, or NoResult]
    ids,                 \* [session -> the list ids of the protein branch]
    molecule_smi,        \* the file molecule.smi, or NoFile
    descriptors_output,  \* the file descriptors_output.csv, or NoTable
    cache                \* the arguments st.cache_data holds a frame for (line 11)

vars == << smiles_input, selected_option, pc, triggered, out, raised, ops,
           exitcode, tool, X, y_pred, result, ids, molecule_smi,
           descriptors_output, cache >>

-----------------------------------------------------------------------------
(* Bounds of the model *)

\* longest text a user types
MaxLen == 2
\* longest identifier list the protein search yields
MaxResults == 11
\* largest prediction code of the classifier (codes range over -1..MaxCode)
MaxCode == 2
\* regressor outputs range over PredBase .. PredBase+MaxPredOff (and negations)
MaxPredOff == 6

\* at most this many identifiers are kept (line 157)
MaxProteins == 10

\* resolution of modelled floating-point values: 1/1024
Scale == 2 ^ 10

\* characters a user can type: an atom symbol and a character that is no
\* SMILES and that csv.writer treats specially
Chars == {"C", ","}

AtomChars == {"C"}

StringsUpTo(n) == UNION {[1..k -> Chars] : k \in 0..n}

Inputs == StringsUpTo(MaxLen)

\* regressor outputs: around 6.125 (a tie of the second decimal), around 0, and negatives
PredBase == 48 * 128 + 128 - 3
PredValues ==
    LET near == {PredBase + k : k \in 0..MaxPredOff}
    IN  near \cup {-v : v \in near} \cup {-1, 0, 1, 5, 6}

Codes == (-1)..MaxCode

\* result lists without and with repeated identifiers
Patterns == {"distinct", "alternate"}

\* the i-th identifier of a result list of pattern p
IdAt(p, i) ==
    CASE p = "distinct"  -> ToString(i)
      [] p = "alternate" -> ToString(1 + (i % 2))

\* identifier sequences the search service can yield
SearchResults ==
    {[i \in 1..n |-> IdAt(p, i)] : n \in 0..MaxResults, p \in Patterns}

\* what search() returns: a list of identifiers, or None
SearchOutcomes ==
    {[none |-> TRUE, ids |-> << >>]}
    \cup {[none |-> FALSE, ids |-> r] : r \in SearchResults}

\* no search made, no tool started
NoResult == [none |-> FALSE, ids |-> << >>]
NoTool == [mol |-> << >>, code |-> -1]

\* a file that does not exist; a frame that was never read
NoFile == [exists |-> FALSE, content |-> << >>]
NoTable == [exists |-> FALSE, columns |-> << >>, src |-> << >>]
NoData == [columns |-> << >>, src |-> << >>]
NoExc  == [cls |-> "none", at |-> "none", msg |-> "none"]

-----------------------------------------------------------------------------
(* The widgets *)

options == << "Compute Lipinski's Descriptors",
              "Predict the Compound's Activity",
              "Predict the Compound's pIC50",
              "Retrieve interacting proteins" >>

Options == {options[i] : i \in 1..Len(options)}

-----------------------------------------------------------------------------
(* Library functions the script calls *)

\* Chem.MolFromSmiles: None when the text is no SMILES
MolFromSmiles(smiles) ==
    IF \A i \in 1..Len(smiles) : smiles[i] \in AtomChars
    THEN [none |-> FALSE, mol |-> smiles]
    ELSE [none |-> TRUE, mol |-> << >>]

\* the four-column frame built at lines 26-33
Descriptors(mol) ==
    [columns |-> <<"MW", "LogP", "NumHDonors", "NumHAcceptors">>,
     src |-> mol.mol]

\* calculate_lipinski_descriptors under st.cache_data (lines 11-33): for an
\* argument the memo holds, the frame comes from the memo and the body does
\* not run; otherwise the body runs, and its frame is memoised (an exception
\* is not).  calls lists what the body did; memo is the memo afterwards.
calculate_lipinski_descriptors(smiles, memo) ==
    IF smiles \in memo
    THEN [ok |-> TRUE, df |-> Descriptors([none |-> FALSE, mol |-> smiles]),
          calls |-> << >>, exc |-> NoExc, memo |-> memo]
    ELSE LET mol == MolFromSmiles(smiles)
         IN  IF mol.none
             THEN [ok |-> FALSE, df |-> NoData, calls |-> <<"parse">>,
                   exc |-> [cls |-> "ValueError", at |-> "parse",
                            msg |-> "Invalid SMILES string"],
                   memo |-> memo]
             ELSE [ok |-> TRUE, df |-> Descriptors(mol),
                   calls |-> <<"parse", "descriptors">>, exc |-> NoExc,
                   memo |-> memo \cup {smiles}]

\* csv.writer, default dialect (delimiter ',', quotechar '"', QUOTE_MINIMAL,
\* doublequote, lineterminator '\r\n')
NeedsQuote(field) ==
    \E i \in 1..Len(field) : field[i] \in {",", "\"", "\r", "\n"}

RECURSIVE DoubleQuotes(_)
DoubleQuotes(field) ==
    IF field = << >> THEN << >>
    ELSE (IF Head(field) = "\"" THEN <<"\"", "\"">> ELSE <<Head(field)>>)
         \o DoubleQuotes(Tail(field))

CsvField(field) ==
    IF NeedsQuote(field)
    THEN <<"\"">> \o DoubleQuotes(field) \o <<"\"">>
    ELSE field

RECURSIVE CsvRow(_)
CsvRow(row) ==
    IF row = << >> THEN <<"\r", "\n">>
    ELSE CsvField(Head(row))
         \o (IF Len(row) > 1 THEN <<",">> ELSE << >>)
         \o CsvRow(Tail(row))

RECURSIVE writerows(_)
writerows(data) ==
    IF data = << >> THEN << >> ELSE CsvRow(Head(data)) \o writerows(Tail(data))

\* a write of data at offset 0 through a descriptor that truncated the file
\* when it was opened: what lies beyond the data stays
WriteAtStart(old, data) ==
    IF Len(old) > Len(data)
    THEN data \o SubSeq(old, Len(data) + 1, Len(old))
    ELSE data

\* generate_csv_file: the bytes the with-block flushes when it closes the file
generate_csv_file(string1, string2) ==
    writerows(<< << string1 \o <<"\t">> \o string2 >> >>)

Compound_name ==
    <<"C", "o", "m", "p", "o", "u", "n", "d", "_", "n", "a", "m", "e">>

\* the external tool ./padel.sh: the molecule it reads is the first
\* tab-separated field of the first line of molecule.smi
RECURSIVE FirstField(_)
FirstField(content) ==
    IF content = << >> \/ Head(content) \in {"\t", "\r", "\n"} THEN << >>
    ELSE <<Head(content)>> \o FirstField(Tail(content))

\* the columns the regressor was trained on
FeatureColumns == <<"F1", "F2">>

\* what one invocation of the tool can do: its exit code and what it leaves
\* in descriptors_output.csv
ToolOutcomes ==
    {[code |-> 0, writes |-> "good"],
     [code |-> 0, writes |-> "noname"],
     [code |-> 0, writes |-> "badshape"],
     [code |-> 1, writes |-> "none"],
     [code |-> 1, writes |-> "empty"]}

\* what the tool leaves in descriptors_output.csv for the molecule it read;
\* src, the molecule a table describes, is kept for the tables a prediction
\* can be made from
padel(outcome, mol, old) ==
        CASE outcome.writes = "good" ->
               [exists |-> TRUE, columns |-> <<"Name">> \o FeatureColumns,
                src |-> mol]
          [] outcome.writes = "noname" ->
               [exists |-> TRUE, columns |-> FeatureColumns, src |-> << >>]
          [] outcome.writes = "badshape" ->
               [exists |-> TRUE, columns |-> <<"Name", "F1">>, src |-> << >>]
          [] outcome.writes = "empty" ->
               [exists |-> TRUE, columns |-> << >>, src |-> << >>]
          [] OTHER -> old

\* an exception: its class, the call that raised it, and str(e)
Exc(cls, at, msg) == [cls |-> cls, at |-> at, msg |-> msg]

\* pd.read_csv('descriptors_output.csv')
read_csv(file) ==
    IF ~file.exists
    THEN [ok |-> FALSE, data |-> NoData,
          exc |-> Exc("FileNotFoundError", "read_csv", "No such file or directory")]
    ELSE IF file.columns = << >>
    THEN [ok |-> FALSE, data |-> NoData,
          exc |-> Exc("EmptyDataError", "read_csv", "No columns to parse from file")]
    ELSE [ok |-> TRUE, data |-> [columns |-> file.columns, src |-> file.src],
          exc |-> NoExc]

Without(seq, x) == SelectSeq(seq, LAMBDA c : c # x)

\* a drop that tolerates a missing column (errors='ignore')
drop_ignore(data, column) ==
    [ok |-> TRUE,
     data |-> [columns |-> Without(data.columns, column), src |-> data.src],
     exc |-> NoExc]

\* data.drop(columns=[column])
drop(data, column) ==
    IF \E i \in 1..Len(data.columns) : data.columns[i] = column
    THEN [ok |-> TRUE,
          data |-> [columns |-> Without(data.columns, column), src |-> data.src],
          exc |-> NoExc]
    ELSE [ok |-> FALSE, data |-> NoData,
          exc |-> Exc("KeyError", "drop", "['Name'] not found in axis")]

\* states of a model artifact file on disk
ArtifactStates == {"ok", "missing", "garbage", "unsupported", "truncated"}

\* pickle.load(open(filename, 'rb'))
pickle_load(artifact, at) ==
    CASE artifact = "missing" ->
           Exc("FileNotFoundError", at, "No such file or directory")
      [] artifact = "garbage" ->
           Exc("UnpicklingError", at, "pickle data was truncated")
      [] artifact = "unsupported" ->
           Exc("ValueError", at, "unsupported pickle protocol")
      [] artifact = "truncated" ->
           Exc("EOFError", at, "Ran out of input")
      [] OTHER -> NoExc

\* the regressor's predict: it refuses a matrix of another width
predict(Xm, value) ==
    IF Len(Xm.columns) # Len(FeatureColumns)
    THEN [ok |-> FALSE, y |-> << >>,
          exc |-> Exc("ValueError", "predict_reg", "X has a different number of features")]
    ELSE [ok |-> TRUE, y |-> <<value>>, exc |-> NoExc]

\* except ValueError (line 162): the classes it catches
ValueErrors == {"ValueError", "EmptyDataError"}

Caught(e) == e.cls \in ValueErrors

-----------------------------------------------------------------------------
(* Formatting *)

Abs(n) == IF n < 0 THEN -n ELSE n

RECURSIVE Digits(_)
Digits(n) ==
    IF n < 10 THEN <<ToString(n)>>
    ELSE Digits(n \div 10) \o <<ToString(n % 10)>>

\* the hundredths shown: a truncation instead of a rounding
HundredthsTrunc(v) == (100 * Abs(v)) \div Scale

\* the number of hundredths nearest to |v| / Scale, ties to the even one
Hundredths(v) ==
    LET n == 100 * Abs(v)
        q == n \div Scale
        r == n % Scale
    IN  IF 2 * r > Scale \/ (2 * r = Scale /\ q % 2 = 1) THEN q + 1 ELSE q

\* format(v, ".2f")
Format2f(v) ==
    LET h == Hundredths(v)
    IN  (IF v < 0 THEN <<"-">> ELSE << >>)
        \o Digits(h \div 100)
        \o <<".", ToString((h \div 10) % 10), ToString(h % 10)>>

\* sep.join(xs)
RECURSIVE Join(_, _)
Join(sep, xs) ==
    IF xs = << >> THEN << >>
    ELSE IF Len(xs) = 1 THEN <<xs[1]>>
    ELSE <<xs[1], sep>> \o Join(sep, Tail(xs))

\* a rendered element: st.text, st.table, st.markdown or st.error
Element(kind, body) == [kind |-> kind, body |-> body]

Prompt == Element("text", <<"Enter Canonical SMILES">>)

HideIndex == Element("markdown", <<"<style>">>)

\* the table of the Lipinski branch, its columns renamed (lines 114-115)
Table(df) ==
    Element("table",
            <<"Molecular Weight", "Octanol-Water Partition Coefficient (LogP)",
              "Number of Hydrogen Bond Donors",
              "Number of Hydrogen Bond Acceptors">> \o df.src)

\* a label that treats every non-zero code as active
LabelNonZero(y) == IF y # <<0>> THEN "Active" ELSE "Inactive"

\* lines 129-132
Label(y) == IF y = <<1>> THEN "Active" ELSE "Inactive"

PIC50Prefix == "The pIC50 of your compound is "

\* an off-by-one bound of the loop body
KeepLe(acc, pdb_id) ==
    IF Len(acc) <= MaxProteins THEN Append(acc, pdb_id) ELSE acc

\* the body of the loop at lines 156-158
Keep(acc, pdb_id) ==
    IF Len(acc) < MaxProteins THEN Append(acc, pdb_id) ELSE acc

RECURSIVE Collect(_, _)
Collect(res, acc) ==
    IF res = << >> THEN acc
    ELSE Collect(Tail(res), Keep(acc, Head(res)))

\* a dispatch whose second test selects the third branch
BranchSlip(option) ==
    CASE option = options[1] -> "lipinski"
      [] option = options[2] -> "pic50"
      [] option = options[3] -> "pic50"
      [] option = options[4] -> "proteins"
      [] OTHER -> "idle"

\* the if / elif chain of lines 111-152: the branch an option selects
Branch(option) ==
    CASE option = options[1] -> "lipinski"
      [] option = options[2] -> "activity"
      [] option = options[3] -> "pic50"
      [] option = options[4] -> "proteins"
      [] OTHER -> "idle"

\* what the run has rendered once the try statement is left with exception e
Rendered(shown, e) ==
    shown \o (IF e # NoExc /\ Caught(e)
              THEN <<Element("error", <<e.msg>>)>> ELSE << >>)

-----------------------------------------------------------------------------
(* The state machine *)

Sessions == DOMAIN pc

\* one session, its widgets at their defaults, a fresh working directory
Init ==
    /\ smiles_input = [s \in {1} |-> << >>]
    /\ selected_option = [s \in {1} |-> options[1]]
    /\ pc = [s \in {1} |-> "idle"]
    /\ triggered = [s \in {1} |-> FALSE]
    /\ out = [s \in {1} |-> << >>]
    /\ raised = [s \in {1} |-> NoExc]
    /\ ops = [s \in {1} |-> << >>]
    /\ exitcode = [s \in {1} |-> -1]
    /\ tool = [s \in {1} |-> NoTool]
    /\ X = [s \in {1} |-> NoData]
    /\ y_pred = [s \in {1} |-> << >>]
    /\ result = [s \in {1} |-> NoResult]
    /\ ids = [s \in {1} |-> << >>]
    /\ molecule_smi = NoFile
    /\ descriptors_output = NoTable
    /\ cache = {}

\* two sessions that chose the pIC50 branch and typed different molecules
InitConc ==
    /\ smiles_input = [s \in {1, 2} |-> [i \in 1..s |-> "C"]]
    /\ selected_option = [s \in {1, 2} |-> options[3]]
    /\ pc = [s \in {1, 2} |-> "idle"]
    /\ triggered = [s \in {1, 2} |-> FALSE]
    /\ out = [s \in {1, 2} |-> << >>]
    /\ raised = [s \in {1, 2} |-> NoExc]
    /\ ops = [s \in {1, 2} |-> << >>]
    /\ exitcode = [s \in {1, 2} |-> -1]
    /\ tool = [s \in {1, 2} |-> NoTool]
    /\ X = [s \in {1, 2} |-> NoData]
    /\ y_pred = [s \in {1, 2} |-> << >>]
    /\ result = [s \in {1, 2} |-> NoResult]
    /\ ids = [s \in {1, 2} |-> << >>]
    /\ molecule_smi = NoFile
    /\ descriptors_output = NoTable
    /\ cache = {}

\* a script run starts: everything the previous run rendered or held is gone
Rerun(s, button, shown, next) ==
    /\ triggered' = [triggered EXCEPT ![s] = button]
    /\ out' = [out EXCEPT ![s] = shown]
    /\ pc' = [pc EXCEPT ![s] = next]
    /\ raised' = [raised EXCEPT ![s] = NoExc]
    /\ ops' = [ops EXCEPT ![s] = << >>]
    /\ exitcode' = [exitcode EXCEPT ![s] = -1]
    /\ tool' = [tool EXCEPT ![s] = NoTool]
    /\ X' = [X EXCEPT ![s] = NoData]
    /\ y_pred' = [y_pred EXCEPT ![s] = << >>]
    /\ result' = [result EXCEPT ![s] = NoResult]
    /\ ids' = [ids EXCEPT ![s] = << >>]
    /\ UNCHANGED << molecule_smi, descriptors_output, cache >>

\* the try statement is left: normally, or with exception e
Leave(s, shown, e, calls) ==
    /\ pc' = [pc EXCEPT ![s] = "idle"]
    /\ raised' = [raised EXCEPT ![s] = e]
    /\ out' = [out EXCEPT ![s] = Rendered(out[s] \o shown, e)]
    /\ ops' = [ops EXCEPT ![s] = ops[s] \o calls]

\* the user edits the text field: the script reruns with the button not pressed
EditText ==
    \E s \in Sessions :
        /\ pc[s] = "idle"
        /\ \E t \in Inputs \ {smiles_input[s]} :
              smiles_input' = [smiles_input EXCEPT ![s] = t]
        /\ Rerun(s, FALSE, << >>, "idle")
        /\ UNCHANGED selected_option

\* the user picks another option: the script reruns with the button not pressed
Select ==
    \E s \in Sessions :
        /\ pc[s] = "idle"
        /\ \E o \in Options \ {selected_option[s]} :
              selected_option' = [selected_option EXCEPT ![s] = o]
        /\ Rerun(s, FALSE, << >>, "idle")
        /\ UNCHANGED smiles_input

\* the user presses Run (lines 106-111)
ClickRun ==
    \E s \in Sessions :
        /\ pc[s] = "idle"
        /\ IF smiles_input[s] = << >>
           THEN Rerun(s, TRUE, <<Prompt>>, "idle")
           ELSE Rerun(s, TRUE, << >>, Branch(selected_option[s]))
        /\ UNCHANGED << smiles_input, selected_option >>

\* lines 111-123
LipinskiBranch ==
    \E s \in Sessions :
        /\ pc[s] = "lipinski"
        /\ LET r == calculate_lipinski_descriptors(smiles_input[s], cache)
           IN  /\ IF r.ok
                  THEN Leave(s, <<HideIndex, Table(r.df)>>, NoExc, r.calls)
                  ELSE Leave(s, << >>, r.exc, r.calls)
               /\ cache' = r.memo
        /\ UNCHANGED << smiles_input, selected_option, triggered, exitcode, tool, X,
                        y_pred, result, ids, molecule_smi, descriptors_output >>

\* lines 124-132
ActivityBranch ==
    \E s \in Sessions :
        /\ pc[s] = "activity"
        /\ \E artifact \in ArtifactStates, code \in Codes :
              LET loaded == pickle_load(artifact, "load_clf")
                  r == calculate_lipinski_descriptors(smiles_input[s], cache)
              IN  IF loaded # NoExc
                  THEN /\ Leave(s, << >>, loaded, <<"load_clf">>)
                       /\ UNCHANGED << y_pred, cache >>
                  ELSE IF ~r.ok
                  THEN /\ Leave(s, << >>, r.exc, <<"load_clf">> \o r.calls)
                       /\ UNCHANGED y_pred
                       /\ cache' = r.memo
                  ELSE /\ Leave(s, <<Element("text", <<Label(<<code>>)>>)>>, NoExc,
                                <<"load_clf">> \o r.calls \o <<"predict_clf">>)
                       /\ y_pred' = [y_pred EXCEPT ![s] = <<code>>]
                       /\ cache' = r.memo
        /\ UNCHANGED << smiles_input, selected_option, triggered, exitcode, tool, X,
                        result, ids, molecule_smi, descriptors_output >>

\* lines 135-139 and 47: open(filename, 'w') leaves the file empty
OpenSmi ==
    \E s \in Sessions :
        /\ pc[s] = "pic50"
        /\ molecule_smi' = [exists |-> TRUE, content |-> << >>]
        /\ ops' = [ops EXCEPT ![s] = Append(ops[s], "write_smi")]
        /\ pc' = [pc EXCEPT ![s] = "pic50_write"]
        /\ UNCHANGED << smiles_input, selected_option, triggered, out, raised,
                        exitcode, tool, X, y_pred, result, ids,
                        descriptors_output,
                        cache >>

\* lines 48-49: the row reaches the file when the with-block closes it,
\* at offset 0 of whatever the file holds by then
WriteSmi ==
    \E s \in Sessions :
        /\ pc[s] = "pic50_write"
        /\ molecule_smi' =
              [exists |-> TRUE,
               content |->
                   WriteAtStart(molecule_smi.content,
                                generate_csv_file(smiles_input[s],
                                                  Compound_name))]
        /\ pc' = [pc EXCEPT ![s] = "pic50_tool"]
        /\ UNCHANGED << smiles_input, selected_option, triggered, out, raised,
                        ops, exitcode, tool, X, y_pred, result, ids,
                        descriptors_output,
                        cache >>

\* lines 141-142: subprocess.call starts the tool, which reads molecule.smi
ToolRead ==
    \E s \in Sessions :
        /\ pc[s] = "pic50_tool"
        /\ tool' = [tool EXCEPT ![s] =
                        [mol |-> FirstField(molecule_smi.content), code |-> -1]]
        /\ ops' = [ops EXCEPT ![s] = Append(ops[s], "call_tool")]
        /\ pc' = [pc EXCEPT ![s] = "pic50_tool_read"]
        /\ UNCHANGED << smiles_input, selected_option, triggered, out, raised,
                        exitcode, X, y_pred, result, ids, molecule_smi,
                        descriptors_output,
                        cache >>

\* the tool, still running, writes descriptors_output.csv (or fails to)
ToolWrite ==
    \E s \in Sessions :
        /\ pc[s] = "pic50_tool_read"
        /\ \E outcome \in ToolOutcomes :
              /\ descriptors_output' =
                    padel(outcome, tool[s].mol, descriptors_output)
              /\ tool' = [tool EXCEPT ![s].code = outcome.code]
        /\ pc' = [pc EXCEPT ![s] = "pic50_tool_wrote"]
        /\ UNCHANGED << smiles_input, selected_option, triggered, out, raised,
                        ops, exitcode, X, y_pred, result, ids, molecule_smi,
                        cache >>

\* line 142: the tool exits and subprocess.call returns its exit code,
\* which the script does not look at
CallTool ==
    \E s \in Sessions :
        /\ pc[s] = "pic50_tool_wrote"
        /\ exitcode' = [exitcode EXCEPT ![s] = tool[s].code]
        /\ pc' = [pc EXCEPT ![s] = "pic50_read"]
        /\ UNCHANGED << smiles_input, selected_option, triggered, out, raised,
                        ops, tool, X, y_pred, result, ids, molecule_smi,
                        descriptors_output,
                        cache >>

\* lines 144-145
ReadCsv ==
    \E s \in Sessions :
        /\ pc[s] = "pic50_read"
        /\ LET r == read_csv(descriptors_output)
               d == drop(r.data, "Name")
           IN  IF ~r.ok
               THEN /\ Leave(s, << >>, r.exc, <<"read_csv">>)
                    /\ UNCHANGED X
               ELSE IF ~d.ok
               THEN /\ Leave(s, << >>, d.exc, <<"read_csv", "drop">>)
                    /\ UNCHANGED X
               ELSE /\ X' = [X EXCEPT ![s] = d.data]
                    /\ ops' = [ops EXCEPT ![s] = ops[s] \o <<"read_csv", "drop">>]
                    /\ pc' = [pc EXCEPT ![s] = "pic50_model"]
                    /\ UNCHANGED << out, raised >>
        /\ UNCHANGED << smiles_input, selected_option, triggered, exitcode, tool,
                        y_pred, result, ids, molecule_smi, descriptors_output,
                        cache >>

\* lines 147-151
Regress ==
    \E s \in Sessions :
        /\ pc[s] = "pic50_model"
        /\ \E artifact \in ArtifactStates, value \in PredValues :
              LET loaded == pickle_load(artifact, "load_reg")
                  p == predict(X[s], value)
              IN  IF loaded # NoExc
                  THEN /\ Leave(s, << >>, loaded, <<"load_reg">>)
                       /\ UNCHANGED y_pred
                  ELSE IF ~p.ok
                  THEN /\ Leave(s, << >>, p.exc, <<"load_reg", "predict_reg">>)
                       /\ UNCHANGED y_pred
                  ELSE /\ Leave(s,
                                <<Element("text",
                                          <<PIC50Prefix>> \o Format2f(p.y[1]))>>,
                                NoExc, <<"load_reg", "predict_reg">>)
                       /\ y_pred' = [y_pred EXCEPT ![s] = p.y]
        /\ UNCHANGED << smiles_input, selected_option, triggered, exitcode, tool, X,
                        result, ids, molecule_smi, descriptors_output,
                        cache >>

\* lines 152-160: iterating over None raises TypeError at line 156
ProteinBranch ==
    \E s \in Sessions :
        /\ pc[s] = "proteins"
        /\ \E found \in SearchOutcomes :
              LET kept == Collect(found.ids, << >>)
              IN  /\ result' = [result EXCEPT ![s] = found]
                  /\ IF found.none
                     THEN /\ UNCHANGED ids
                          /\ Leave(s, << >>,
                                   Exc("TypeError", "iterate",
                                       "'NoneType' object is not iterable"),
                                   <<"search">>)
                     ELSE /\ ids' = [ids EXCEPT ![s] = kept]
                          /\ Leave(s, <<Element("markdown", Join(", ", kept))>>,
                                   NoExc, <<"search">>)
        /\ UNCHANGED << smiles_input, selected_option, triggered, exitcode,
                        tool, X, y_pred, molecule_smi, descriptors_output,
                        cache >>

Next ==
    \/ EditText
    \/ Select
    \/ ClickRun
    \/ LipinskiBranch
    \/ ActivityBranch
    \/ OpenSmi
    \/ WriteSmi
    \/ ToolRead
    \/ ToolWrite
    \/ CallTool
    \/ ReadCsv
    \/ Regress
    \/ ProteinBranch

\* one session
Spec == Init /\ [][Next]_vars

\* the steps of two concurrent runs of the pIC50 branch
NextConc ==
    \/ ClickRun
    \/ OpenSmi
    \/ WriteSmi
    \/ ToolRead
    \/ ToolWrite
    \/ CallTool
    \/ ReadCsv
    \/ Regress

\* two sessions of the same server, their script runs interleaved
SpecConc == InitConc /\ [][NextConc]_vars

-----------------------------------------------------------------------------
(* Vocabulary of the properties *)

\* a run started by the Run button has ended
Finished(s) == triggered[s] /\ pc[s] = "idle"

Called(s) == {ops[s][i] : i \in 1..Len(ops[s])}

\* the text is one the molecule parser does not accept
Rejected(text) == text = << >> \/ MolFromSmiles(text).none

\* everything behind the parser
Downstream ==
    {"descriptors", "write_smi", "call_tool", "read_csv", "drop", "load_clf",
     "predict_clf", "load_reg", "predict_reg", "search"}

\* the calls that belong to each branch
BranchCalls(option) ==
    CASE option = options[1] -> {"parse", "descriptors"}
      [] option = options[2] -> {"load_clf", "parse", "descriptors", "predict_clf"}
      [] option = options[3] -> {"write_smi", "call_tool", "read_csv", "drop",
                                 "load_reg", "predict_reg"}
      [] option = options[4] -> {"search"}
      [] OTHER -> {}

BranchPositions(option) ==
    CASE option = options[1] -> {"lipinski"}
      [] option = options[2] -> {"activity"}
      [] option = options[3] -> {"pic50", "pic50_write", "pic50_tool",
                                 "pic50_tool_read", "pic50_tool_wrote",
                                 "pic50_read", "pic50_model"}
      [] option = options[4] -> {"proteins"}
      [] OTHER -> {}

\* the run shows a result: a label, a pIC50 value, a table or a protein list
ShowsResult(s) ==
    \E i \in 1..Len(out[s]) :
        /\ out[s][i].kind \in {"text", "table", "markdown"}
        /\ out[s][i] \notin {Prompt, HideIndex}

\* the run shows exactly the message of the failure e
ShowsFailure(s, e) == out[s] = <<Element("error", <<e.msg>>)>>

Min(a, b) == IF a < b THEN a ELSE b

EndsWithNewline(content) ==
    /\ Len(content) >= 2
    /\ content[Len(content) - 1] = "\r"
    /\ content[Len(content)] = "\n"

\* the text of a file without its final line terminator
Row(content) == SubSeq(content, 1, Len(content) - 2)

RECURSIVE Split(_, _)
Split(text, sep) ==
    IF \A i \in 1..Len(text) : text[i] # sep THEN <<text>>
    ELSE LET k == CHOOSE i \in 1..Len(text) :
                      text[i] = sep /\ \A j \in 1..(i - 1) : text[j] # sep
         IN  <<SubSeq(text, 1, k - 1)>>
             \o Split(SubSeq(text, k + 1, Len(text)), sep)

IsDigit(c) == \E d \in 0..9 : ToString(d) = c

DigitValue(c) == CHOOSE d \in 0..9 : ToString(d) = c

RECURSIVE Number(_)
Number(digits) ==
    IF digits = << >> THEN 0
    ELSE 10 * Number(SubSeq(digits, 1, Len(digits) - 1))
         + DigitValue(digits[Len(digits)])

\* text has the form [-]d+.dd
TwoDecimals(text) ==
    LET mag == IF text # << >> /\ Head(text) = "-" THEN Tail(text) ELSE text
        n == Len(mag)
    IN  /\ n >= 4
        /\ mag[n - 2] = "."
        /\ \A i \in (1..n) \ {n - 2} : IsDigit(mag[i])

\* the number of hundredths a text of that form denotes, without its sign
ShownHundredths(text) ==
    LET mag == IF Head(text) = "-" THEN Tail(text) ELSE text
        n == Len(mag)
    IN  100 * Number(SubSeq(mag, 1, n - 3)) + Number(SubSeq(mag, n - 1, n))

-----------------------------------------------------------------------------
(* Properties *)

\* C1: a run triggered with a text the molecule parser rejects ends in the
\* failure that reports the invalid structure (for the empty text, the
\* prompt), and makes no call behind the parser: no descriptor computation,
\* file write, tool invocation, model load, prediction or protein search.
C1_RejectedInputRunsNothing ==
    \A s \in Sessions :
        triggered[s] /\ Rejected(smiles_input[s]) =>
            /\ Called(s) \cap Downstream = {}
            /\ pc[s] = "idle" =>
                  IF smiles_input[s] = << >>
                  THEN out[s] = <<Prompt>>
                  ELSE raised[s].at = "parse" /\ ShowsFailure(s, raised[s])

\* C2: in the pIC50 branch, once the tool returned a non-zero exit code the
\* output file is not read, the regressor is neither loaded nor asked to
\* predict, no pIC50 value is shown, and the run ends in the tool's failure.
C2_ToolFailureStopsRun ==
    \A s \in Sessions :
        exitcode[s] > 0 =>
            /\ Called(s) \cap {"read_csv", "drop", "load_reg", "predict_reg"} = {}
            /\ y_pred[s] = << >>
            /\ ~ShowsResult(s)
            /\ pc[s] = "idle" => raised[s].at = "call_tool"

\* C3: a prediction made after the run's own tool invocation succeeded is
\* computed from the features of the run's own input string, whatever the
\* other session does meanwhile.
C3_PredictionFromOwnFeatures ==
    \A s \in Sessions :
        y_pred[s] # << >> /\ exitcode[s] = 0 => X[s].src = smiles_input[s]

\* C4: the protein branch keeps exactly the first min(10, n) identifiers of
\* the n the search yielded, in order and with repetitions, shows them joined,
\* and an empty list is a result, not a failure.
C4_FirstTenInOrder ==
    \A s \in Sessions :
        Finished(s) /\ selected_option[s] = options[4]
                    /\ smiles_input[s] # << >> /\ ~result[s].none =>
            LET k == Min(10, Len(result[s].ids))
            IN  /\ ids[s] = SubSeq(result[s].ids, 1, k)
                /\ raised[s] = NoExc
                /\ Len(out[s]) = 1
                /\ out[s][1].kind = "markdown"
                /\ Len(out[s][1].body) = (IF k = 0 THEN 0 ELSE 2 * k - 1)
                /\ \A i \in 1..k : out[s][1].body[2 * i - 1] = result[s].ids[i]

C4_Witness ==
    \E s \in Sessions :
        /\ Finished(s)
        /\ Len(result[s].ids) > 10
        /\ Len(ids[s]) = 10
        /\ ids[s][3] = ids[s][1]

\* C5: a run that ended in a failure caught it and shows the message of that
\* failure and nothing else; no exception leaves the try statement uncaught.
C5_EveryFailureCaught ==
    \A s \in Sessions :
        Finished(s) /\ raised[s] # NoExc =>
            Caught(raised[s]) /\ ShowsFailure(s, raised[s])

\* C6: when the pIC50 branch read a descriptors_output.csv that has columns
\* but no "Name" column, the run ends in the failure of the feature parsing,
\* and the regressor is neither loaded nor asked to predict.
C6_MissingNameStopsRun ==
    \A s \in Sessions :
        /\ "read_csv" \in Called(s)
        /\ descriptors_output.exists
        /\ descriptors_output.columns # << >>
        /\ \A i \in 1..Len(descriptors_output.columns) :
              descriptors_output.columns[i] # "Name"
        => /\ pc[s] = "idle"
           /\ raised[s].at = "drop"
           /\ raised[s].cls = "KeyError"
           /\ Called(s) \cap {"load_reg", "predict_reg"} = {}
           /\ y_pred[s] = << >>
           /\ ~ShowsResult(s)

C6_Witness ==
    \E s \in Sessions :
        /\ Finished(s)
        /\ "read_csv" \in Called(s)
        /\ descriptors_output.columns = FeatureColumns
        /\ raised[s].at = "drop"

\* C7: a successful run of the activity branch shows exactly one label,
\* "Active" when the prediction code is 1 and "Inactive" for any other code.
C7_ActiveIffOne ==
    \A s \in Sessions :
        Finished(s) /\ selected_option[s] = options[2]
                    /\ smiles_input[s] # << >> /\ raised[s] = NoExc =>
            /\ Len(y_pred[s]) = 1
            /\ Len(out[s]) = 1
            /\ out[s][1].kind = "text"
            /\ out[s][1].body \in {<<"Active">>, <<"Inactive">>}
            /\ out[s][1].body = <<"Active">> <=> y_pred[s][1] = 1

C7_Witness ==
    \E s \in Sessions :
        /\ Finished(s)
        /\ y_pred[s] = <<2>>
        /\ out[s] = <<Element("text", <<"Inactive">>)>>

\* C8: the file generate_csv_file wrote holds one row, and splitting the row
\* at the tab gives the input string and the placeholder name; the write
\* precedes the tool's invocation.
C8_TwoTabSeparatedFields ==
    \A s \in Sessions :
        pc[s] = "pic50_tool" =>
            /\ EndsWithNewline(molecule_smi.content)
            /\ \A i \in 1..Len(Row(molecule_smi.content)) :
                  Row(molecule_smi.content)[i] \notin {"\r", "\n"}
            /\ Split(Row(molecule_smi.content), "\t")
                  = <<smiles_input[s], Compound_name>>
            /\ "call_tool" \notin Called(s)

\* C9: a successful run of the pIC50 branch shows the first prediction as
\* [-]d+.dd, the hundredths being the ones nearest to the predicted value;
\* the matrix given to predict is the file's, with only "Name" removed.
C9_RoundedAfterPredict ==
    \A s \in Sessions :
        Finished(s) /\ selected_option[s] = options[3]
                    /\ smiles_input[s] # << >> /\ raised[s] = NoExc =>
            /\ Len(y_pred[s]) = 1
            /\ Len(out[s]) = 1
            /\ out[s][1].kind = "text"
            /\ Head(out[s][1].body) = "The pIC50 of your compound is "
            /\ LET shown == Tail(out[s][1].body)
                   v == y_pred[s][1]
               IN  /\ TwoDecimals(shown)
                   /\ 2 * Abs(ShownHundredths(shown) * Scale - 100 * Abs(v))
                         <= Scale
                   /\ Head(shown) = "-" <=> v < 0
                   /\ v = 6270 => shown = <<"6", ".", "1", "2">>
            /\ X[s].src = descriptors_output.src
            /\ <<"Name">> \o X[s].columns = descriptors_output.columns

C9_Witness ==
    \E s \in Sessions :
        /\ Finished(s)
        /\ y_pred[s] = <<6272>>
        /\ out[s] = <<Element("text", <<"The pIC50 of your compound is ",
                                         "6", ".", "1", "2">>)>>

\* C10: calls are made only by a run the Run button started with a non-empty
\* text, and only calls of the selected branch; a run with an empty text shows
\* the prompt and nothing else; a failed run is over; the files change only
\* in a step of a triggered run of the pIC50 branch; and the descriptor memo
\* grows only in a triggered run of one of the two branches that compute
\* descriptors.
C10_State ==
    \A s \in Sessions :
        /\ ops[s] # << >> \/ pc[s] # "idle" =>
              triggered[s] /\ smiles_input[s] # << >>
        /\ Called(s) \subseteq BranchCalls(selected_option[s])
        /\ pc[s] \in BranchPositions(selected_option[s]) \cup {"idle"}
        /\ triggered[s] /\ smiles_input[s] = << >> =>
              out[s] = <<Prompt>> /\ ops[s] = << >> /\ pc[s] = "idle"
        /\ ~triggered[s] => out[s] = << >>
        /\ raised[s] # NoExc => pc[s] = "idle"

C10_Files ==
    molecule_smi' # molecule_smi \/ descriptors_output' # descriptors_output =>
        \E s \in Sessions :
            /\ triggered[s]
            /\ smiles_input[s] # << >>
            /\ selected_option[s] = options[3]
            /\ pc[s] \in {"pic50", "pic50_write", "pic50_tool_read"}
            /\ pc'[s] \in {"pic50_write", "pic50_tool", "pic50_tool_wrote"}

C10_Memo ==
    cache' # cache =>
        \E s \in Sessions :
            /\ triggered[s]
            /\ smiles_input[s] # << >>
            /\ selected_option[s] \in {options[1], options[2]}
            /\ pc[s] \in {"lipinski", "activity"}
            /\ cache' = cache \cup {smiles_input[s]}

C10_OnlyTriggeredSelectedBranch ==
    [](C10_State) /\ [][C10_Files /\ C10_Memo]_vars

C10_Witness ==
    \E s \in Sessions :
        /\ Finished(s)
        /\ selected_option[s] = options[2]
        /\ raised[s] # NoExc
        /\ ops[s] # << >>
        /\ molecule_smi.exists
        /\ cache # {}

====
